---- MODULE Spec2Model ----
(***************************************************************************)
(* Knee-extension rep counter (src/script.js): keypoint stabilisation,     *)
(* knee angle, exponential smoothing, the BENT -> EXTENDING -> FLEXING ->  *)
(* BENT state machine with its feedback, and the render loop driving it.   *)
(*                                                                         *)
(* Number representation.  JavaScript numbers are modelled in fixed point: *)
(*   angles      in 1/Scale degree (millionths of a degree),               *)
(*   times       in tenths of a second (performance.now()/1000 = 1.2 s is  *)
(*               the integer 12),                                          *)
(*   scores and SMOOTHING_ALPHA in tenths,                                 *)
(*   pixel coordinates as integers.                                        *)
(* Every product of the smoothing is rounded to the angle grid (to         *)
(* nearest, ties to even), as the double arithmetic rounds every operation *)
(* to its own grid; acos is taken to the nearest degree.                   *)
(* A value that may be null is Null (<<>>) or Some(v) (<<v>>).             *)
(***************************************************************************)
EXTENDS Integers, Sequences, FiniteSets, TLC

\* ------------------------------------------------------------ bounds
\* number of render-loop passes (frames) a behaviour may start
MaxFrames == 3

\* ------------------------------------------------------------ units
Scale == 1000000
Deg(d) == d * Scale

Null == <<>>
Some(v) == <<v>>
Val(o) == o[1]

\* ------------------------------------------------------------ constants
SMOOTHING_ALPHA == 3
MAX_GAP_SEC == 3
MIN_SCORE == 3
BENT_THRESHOLD == 110
STRAIGHT_TARGET == 165
ANGLE_OK_MARGIN == 5
MIN_REP_TIME == 50
MIN_PHASE_TIME == 20
HYSTERESIS == 1
WARN_MARGIN == 20

Names == {"right_hip", "right_knee", "right_ankle"}

\* ------------------------------------------------------------ inputs
\* Time that passes between two successive reads of performance.now()
\* (tenths of a second): 0.3 s and 0.4 s straddle MAX_GAP_SEC, 2 s is
\* MIN_PHASE_TIME, 2 s + 3 s is MIN_REP_TIME.
Gaps == {3, 4, 20, 30}

\* A keypoint of the estimator: {name, x, y, score}.  x is Null when the
\* estimator delivers no number there (the arithmetic on it is then NaN).
Kp(name, x, y, score) == [name |-> name, x |-> x, y |-> y, score |-> score]

\* pixel positions <<x, y>> of the knee and of the hip (thigh horizontal)
KneePos == <<240, 200>>
HipPos == <<140, 200>>

\* Ankle pixel positions, 100 px from the knee, at the knee angles (degrees)
\* the model feeds: round(240 - 100 cos a), round(200 + 100 sin a).
AnkleAt ==
  [a \in {61, 90, 95, 100, 110, 120, 140, 145, 150, 160, 165, 168} |->
     CASE a = 61  -> <<192, 287>>
       [] a = 90  -> <<240, 300>>
       [] a = 95  -> <<249, 300>>
       [] a = 100 -> <<257, 298>>
       [] a = 110 -> <<274, 294>>
       [] a = 120 -> <<290, 287>>
       [] a = 140 -> <<317, 264>>
       [] a = 145 -> <<322, 257>>
       [] a = 150 -> <<327, 250>>
       [] a = 160 -> <<334, 234>>
       [] a = 165 -> <<337, 226>>
       [] a = 168 -> <<338, 221>>]

\* knee angles (degrees) of the complete poses of the main specification:
\* 110 is BENT_THRESHOLD, 145 and 160 are the two tier thresholds, and the
\* samples 140, 110, 61 smooth to 140, 131 and exactly 110
Angles == {61, 110, 140, 145, 160}

HipKp == Kp("right_hip", Some(HipPos[1]), Some(HipPos[2]), 9)
HipOnKnee == Kp("right_hip", Some(KneePos[1]), Some(KneePos[2]), 9)
KneeKp == Kp("right_knee", Some(KneePos[1]), Some(KneePos[2]), 9)
KneeLow == Kp("right_knee", Some(KneePos[1]), Some(KneePos[2]), MIN_SCORE - 1)
AnkleKp(a) == Kp("right_ankle", Some(AnkleAt[a][1]), Some(AnkleAt[a][2]), MIN_SCORE)
AnkleNoX == Kp("right_ankle", Null, Some(KneePos[2]), 9)
NoseKp == Kp("nose", Some(100), Some(50), 9)

Pose(kps) == Some([keypoints |-> kps])

\* complete, confident poses: the leg at each knee angle
FullPoses == {Pose(<<NoseKp, HipKp, KneeKp, AnkleKp(a)>>) : a \in Angles}

\* poses with a dropout or a degenerate input
FaultyPoses ==
  { Null,                                             \* no person: poses[0] undefined
    Pose(<<NoseKp, HipKp, KneeKp>>),                   \* ankle not among the keypoints
    Pose(<<NoseKp, KneeKp, AnkleKp(140)>>),            \* hip not among the keypoints
    Pose(<<NoseKp, HipKp, KneeLow, AnkleKp(61)>>),     \* knee below the score threshold
    Pose(<<NoseKp, HipOnKnee, KneeKp, AnkleKp(140)>>), \* hip on the knee: zero-length thigh
    Pose(<<NoseKp, HipKp, KneeKp, AnkleNoX>>) }        \* ankle.x is no number

Poses == FullPoses \cup FaultyPoses

\* ------------------------------------------------------------ state
VARIABLES
  clock,            \* performance.now(), tenths of a second
  frames,           \* number of renderLoop passes started
  estimating,       \* renderLoop invocations suspended at await estimatePoses
  rafPending,       \* requestAnimationFrame callbacks scheduled, not yet run
  currentPose,
  smoothedAngle,
  lastGood,
  state,
  repCount,
  repStartTime,
  extendStartTime,
  flexStartTime,
  maxAngleThisRep,
  angleDisplay,
  repInfo,
  angleFeedback,
  speedFeedback,
  nowSec, hip, knee, ankle, rawAngle,   \* locals of the last updateLogic call
  lastSeen,         \* history: per landmark, when and where getKeypoint last
                    \* found it in the pose (at, x, y)
  sampleCount,      \* history: number of valid angle samples smoothed so far
  rawMin, rawMax    \* history: least and greatest valid angle sample so far

sched == <<clock, frames, estimating, rafPending>>
machine == <<state, repCount, repStartTime, extendStartTime, flexStartTime,
             maxAngleThisRep>>
display == <<angleDisplay, repInfo, angleFeedback, speedFeedback>>
locals == <<nowSec, hip, knee, ankle, rawAngle>>
samples == <<sampleCount, rawMin, rawMax>>
vars == <<sched, currentPose, smoothedAngle, lastGood, machine, display, locals,
          lastSeen, samples>>

\* ------------------------------------------------------------ getKeypoint
RECURSIVE Find(_, _)
Find(kps, name) ==
  IF kps = <<>> THEN Null
  ELSE IF Head(kps).name = name THEN Some(Head(kps))
  ELSE Find(Tail(kps), name)

ScoreTooLow(kp, minScore) == kp.score < minScore

getKeypoint(pose, name, minScore) ==
  IF pose = Null THEN Null
  ELSE LET kp == Find(Val(pose).keypoints, name) IN
       IF kp = Null \/ ScoreTooLow(Val(kp), minScore) THEN Null ELSE kp

\* ------------------------------------------------------------ getStableKeypoint
\* mutant: strict comparison, an entry exactly MAX_GAP_SEC old is dropped
CacheUsableStrict(lg, name, now) ==
  lg[name] # Null /\ (now - lg.timestamp) < MAX_GAP_SEC

\* mutant: every landmark has a timestamp of its own
CacheUsableOwn(lg, name, now) ==
  /\ lg[name] # Null
  /\ lastSeen[name] # Null
  /\ (now - Val(lastSeen[name]).at) <= MAX_GAP_SEC

CacheUsable(lg, name, now) ==
  lg[name] # Null /\ (now - lg.timestamp) <= MAX_GAP_SEC

\* the returned keypoint and lastGood after the call
getStableKeypoint(lg, pose, name, now, minScore) ==
  LET direct == getKeypoint(pose, name, minScore) IN
  IF direct # Null
  THEN [kp |-> direct,
        lastGood |-> [lg EXCEPT ![name] = Some([x |-> Val(direct).x,
                                                y |-> Val(direct).y,
                                                score |-> Val(direct).score]),
                                !.timestamp = now]]
  ELSE IF CacheUsable(lg, name, now)
  THEN [kp |-> lg[name], lastGood |-> lg]
  ELSE [kp |-> Null, lastGood |-> lg]

\* ------------------------------------------------------------ computeKneeAngle
\* Results: Null, NaN, or Some(angle in 1/Scale degree).
NaN == <<0, 0>>
IsNaN(a) == Len(a) = 2

Abs(n) == IF n < 0 THEN -n ELSE n

RECURSIVE SqrtBetween(_, _, _)
SqrtBetween(n, lo, hi) ==
  IF lo >= hi THEN lo
  ELSE LET mid == (lo + hi + 1) \div 2 IN
       IF mid * mid <= n THEN SqrtBetween(n, mid, hi)
       ELSE SqrtBetween(n, lo, mid - 1)

\* Math.hypot, in hundredths of a pixel
Hypot(x, y) == SqrtBetween((x * x + y * y) * 10000, 0, 46340)

\* 10000 * cos(d degrees), d in 0..90
CosTable ==
  << 10000, 9998, 9994, 9986, 9976, 9962, 9945, 9925, 9903, 9877, 9848, 9816,
     9781, 9744, 9703, 9659, 9613, 9563, 9511, 9455, 9397, 9336, 9272, 9205,
     9135, 9063, 8988, 8910, 8829, 8746, 8660, 8572, 8480, 8387, 8290, 8192,
     8090, 7986, 7880, 7771, 7660, 7547, 7431, 7314, 7193, 7071, 6947, 6820,
     6691, 6561, 6428, 6293, 6157, 6018, 5878, 5736, 5592, 5446, 5299, 5150,
     5000, 4848, 4695, 4540, 4384, 4226, 4067, 3907, 3746, 3584, 3420, 3256,
     3090, 2924, 2756, 2588, 2419, 2250, 2079, 1908, 1736, 1564, 1392, 1219,
     1045, 872, 698, 523, 349, 175, 0 >>

Cos(d) == IF d <= 90 THEN CosTable[d + 1] ELSE -CosTable[180 - d + 1]

\* Math.acos(c) * 180 / Math.PI for c = cosine * 10000, to the nearest degree:
\* the largest d in lo..hi whose cosine is not nearer to c than that of d - 1
RECURSIVE AcosBetween(_, _, _)
AcosBetween(c, lo, hi) ==
  IF lo >= hi THEN lo
  ELSE LET mid == (lo + hi + 1) \div 2 IN
       IF Cos(mid - 1) + Cos(mid) >= 2 * c THEN AcosBetween(c, mid, hi)
       ELSE AcosBetween(c, lo, mid - 1)

AcosDeg(c) == AcosBetween(c, 0, 180)

\* dot / (mag1 * mag2), as cosine * 10000 (rounded), mags in hundredths
CosTheta(dot, mag1, mag2) ==
  LET den == (mag1 * mag2) \div 10000
      q == (2 * Abs(dot) * 10000 + den) \div (2 * den)
  IN IF dot < 0 THEN -q ELSE q

Clamp(c) == IF c > 10000 THEN 10000 ELSE IF c < -10000 THEN -10000 ELSE c

\* mutant: both vectors must have length zero
ZeroLengthBoth(mag1, mag2) == mag1 = 0 /\ mag2 = 0

\* mag1 === 0 || mag2 === 0
ZeroLength(mag1, mag2) == mag1 = 0 \/ mag2 = 0

computeKneeAngle(h, k, a) ==
  IF \E p \in {h, k, a} : p.x = Null \/ p.y = Null THEN NaN
  ELSE
    LET v1x == Val(h.x) - Val(k.x)
        v1y == Val(h.y) - Val(k.y)
        v2x == Val(a.x) - Val(k.x)
        v2y == Val(a.y) - Val(k.y)
        dot == v1x * v2x + v1y * v2y
        mag1 == Hypot(v1x, v1y)
        mag2 == Hypot(v2x, v2y)
    IN IF ZeroLength(mag1, mag2) THEN Null
       ELSE IF mag1 * mag2 = 0 THEN NaN      \* dot / 0 with dot = 0
       ELSE Some(Deg(AcosDeg(Clamp(CosTheta(dot, mag1, mag2)))))

\* ------------------------------------------------------------ smoothing
\* n / d rounded to the grid: to nearest, a tie to the even neighbour
RoundDiv(n, d) ==
  LET q == n \div d
      r == n % d
  IN IF 2 * r < d THEN q
     ELSE IF 2 * r > d THEN q + 1
     ELSE IF q % 2 = 0 THEN q ELSE q + 1

\* mutant: no smoothing, the raw sample is used
BlendRaw(angle, prev) == angle

\* mutant: SMOOTHING_ALPHA weighs the previous value too
BlendAlphaTwice(angle, prev) ==
  RoundDiv(SMOOTHING_ALPHA * angle, 10) + RoundDiv(SMOOTHING_ALPHA * prev, 10)

\* SMOOTHING_ALPHA * angle + (1 - SMOOTHING_ALPHA) * smoothedAngle: two
\* products, each rounded, and their sum (exact on the grid)
Blend(angle, prev) ==
  RoundDiv(SMOOTHING_ALPHA * angle, 10)
  + RoundDiv((10 - SMOOTHING_ALPHA) * prev, 10)

\* mutant: the first sample is blended with 0
SmoothFromZero(sm, angle) ==
  LET start == IF sm = Null THEN 0 ELSE Val(sm)
  IN Blend(angle, start)

\* if (smoothedAngle == null) smoothedAngle = angle; then the blend, on the
\* first sample too
Smooth(sm, angle) ==
  LET start == IF sm = Null THEN angle ELSE Val(sm)
  IN Blend(angle, start)

\* ------------------------------------------------------------ feedback
Feedback(text, rep, level) == [text |-> text, rep |-> rep, level |-> level]

\* ROM feedback at the top (EXTENDING -> FLEXING)
\* mutant: the first tier of the peak feedback excludes its lower end
PeakFeedbackStrict(max) ==
  IF max > Deg(STRAIGHT_TARGET - ANGLE_OK_MARGIN)
  THEN Feedback("Great extension! Now lower with control.", Null, "ok")
  ELSE IF max >= Deg(STRAIGHT_TARGET - WARN_MARGIN)
  THEN Feedback("Almost straight. Try a bit more next time.", Null, "warn")
  ELSE Feedback("Too shallow. Straighten your leg more.", Null, "bad")

PeakFeedback(max) ==
  IF max >= Deg(STRAIGHT_TARGET - ANGLE_OK_MARGIN)
  THEN Feedback("Great extension! Now lower with control.", Null, "ok")
  ELSE IF max >= Deg(STRAIGHT_TARGET - WARN_MARGIN)
  THEN Feedback("Almost straight. Try a bit more next time.", Null, "warn")
  ELSE Feedback("Too shallow. Straighten your leg more.", Null, "bad")

\* mutant: the summary's second tier starts at STRAIGHT_TARGET - 10
SummaryFeedbackNarrow(max, rep) ==
  IF max >= Deg(STRAIGHT_TARGET - ANGLE_OK_MARGIN)
  THEN Feedback("Excellent extension!", Some(rep), "ok")
  ELSE IF max >= Deg(STRAIGHT_TARGET - 10)
  THEN Feedback("Good, try to extend a bit further.", Some(rep), "warn")
  ELSE Feedback("Extend your leg more.", Some(rep), "bad")

\* ROM feedback summary (rep completion)
SummaryFeedback(max, rep) ==
  IF max >= Deg(STRAIGHT_TARGET - ANGLE_OK_MARGIN)
  THEN Feedback("Excellent extension!", Some(rep), "ok")
  ELSE IF max >= Deg(STRAIGHT_TARGET - WARN_MARGIN)
  THEN Feedback("Good, try to extend a bit further.", Some(rep), "warn")
  ELSE Feedback("Extend your leg more.", Some(rep), "bad")

\* mutant: the total duration is not tested
TooFastPhasesOnly(totalTime, extendTime, flexTime) ==
  \/ extendTime < MIN_PHASE_TIME
  \/ flexTime < MIN_PHASE_TIME

TooFast(totalTime, extendTime, flexTime) ==
  \/ totalTime < MIN_REP_TIME
  \/ extendTime < MIN_PHASE_TIME
  \/ flexTime < MIN_PHASE_TIME

TempoFeedback(totalTime, extendTime, flexTime, rep) ==
  IF TooFast(totalTime, extendTime, flexTime)
  THEN Feedback("Too fast. Slow down your movement.", Some(rep), "bad")
  ELSE Feedback("Good tempo and control.", Some(rep), "ok")

\* a || b on nullable numbers: b when a is null or 0
OrElse(a, b) == IF a = Null \/ a = Some(0) THEN b ELSE a

\* maxAngleThisRep.toFixed(1): tenths of a degree
ToFixed1(v) == (v + Scale \div 20) \div (Scale \div 10)

Display(text, value) == [text |-> text, value |-> value]

\* a nullable number in a comparison or subtraction: null counts as 0
NumOf(o) == IF o = Null THEN 0 ELSE Val(o)

\* ------------------------------------------------------------ rep state machine
\* mutant: strict comparison, exactly BENT_THRESHOLD leaves BENT
StillBentStrict(angle) == angle < Deg(BENT_THRESHOLD)

StillBent(angle) == angle <= Deg(BENT_THRESHOLD)

\* mutant: no hysteresis
PastPeakNoHysteresis(angle, max) == angle < max

PastPeak(angle, max) == angle < max - Deg(HYSTERESIS)

BackToBent(angle) == angle <= Deg(BENT_THRESHOLD)

\* mutant: the counter is bumped twice on a completion
NextRepCountTwice(n) == n + 2

NextRepCount(n) == n + 1

\* mutant: leaving BENT does not set extendStartTime
CaseBENTNoExtendStart(angle, now) ==
  IF StillBent(angle)
  THEN UNCHANGED <<machine, display>>
  ELSE /\ state' = "EXTENDING"
       /\ repStartTime' = Some(now)
       /\ maxAngleThisRep' = Some(angle)
       /\ angleDisplay' = Display("Angle: --", Null)
       /\ angleFeedback' = Feedback("Extending... straighten your knee.", Null, "ok")
       /\ speedFeedback' = Feedback("", Null, "ok")
       /\ UNCHANGED <<repCount, extendStartTime, flexStartTime, repInfo>>

CaseBENT(angle, now) ==
  IF StillBent(angle)
  THEN UNCHANGED <<machine, display>>
  ELSE /\ state' = "EXTENDING"
       /\ repStartTime' = Some(now)
       /\ extendStartTime' = Some(now)
       /\ maxAngleThisRep' = Some(angle)
       /\ angleDisplay' = Display("Angle: --", Null)
       /\ angleFeedback' = Feedback("Extending... straighten your knee.", Null, "ok")
       /\ speedFeedback' = Feedback("", Null, "ok")
       /\ UNCHANGED <<repCount, flexStartTime, repInfo>>

CaseEXTENDING(angle, now) ==
  LET max == IF angle > NumOf(maxAngleThisRep) THEN angle
             ELSE NumOf(maxAngleThisRep)
  IN /\ maxAngleThisRep' = IF angle > NumOf(maxAngleThisRep) THEN Some(angle)
                           ELSE maxAngleThisRep
     /\ IF PastPeak(angle, max)
        THEN /\ state' = "FLEXING"
             /\ flexStartTime' = Some(now)
             /\ angleDisplay' = Display("Max Angle", Some(ToFixed1(max)))
             /\ angleFeedback' = PeakFeedback(max)
             /\ UNCHANGED <<repCount, repStartTime, extendStartTime, repInfo,
                            speedFeedback>>
        ELSE UNCHANGED <<state, repCount, repStartTime, extendStartTime,
                         flexStartTime, display>>

\* mutant: the reset leaves flexStartTime behind
ResetKeepsFlexStart ==
  /\ state' = "BENT"
  /\ repStartTime' = Null
  /\ extendStartTime' = Null
  /\ maxAngleThisRep' = Null
  /\ UNCHANGED flexStartTime

\* Reset for next rep
ResetForNextRep ==
  /\ state' = "BENT"
  /\ repStartTime' = Null
  /\ extendStartTime' = Null
  /\ flexStartTime' = Null
  /\ maxAngleThisRep' = Null

CaseFLEXING(angle, now) ==
  IF BackToBent(angle)
  THEN LET repEndTime == now
           totalTime == repEndTime - Val(OrElse(repStartTime, Some(repEndTime)))
           extendTime ==
             Val(OrElse(flexStartTime, Some(repEndTime)))
             - Val(OrElse(extendStartTime,
                          OrElse(repStartTime, Some(repEndTime))))
           flexTime == repEndTime - Val(OrElse(flexStartTime, Some(repEndTime)))
           count == NextRepCount(repCount)
       IN /\ repCount' = count
          /\ repInfo' = Some(count)
          /\ speedFeedback' = TempoFeedback(totalTime, extendTime, flexTime, count)
          /\ angleFeedback' = SummaryFeedback(NumOf(maxAngleThisRep), count)
          /\ ResetForNextRep
          /\ UNCHANGED angleDisplay
  ELSE UNCHANGED <<machine, display>>

\* mutant: in EXTENDING an angle back under the threshold completes the rep
RepStateMachineShortcut(angle, now) ==
  CASE state = "BENT" -> CaseBENT(angle, now)
    [] state = "EXTENDING" -> IF BackToBent(angle) THEN CaseFLEXING(angle, now)
                              ELSE CaseEXTENDING(angle, now)
    [] state = "FLEXING" -> CaseFLEXING(angle, now)

RepStateMachine(angle, now) ==
  CASE state = "BENT" -> CaseBENT(angle, now)
    [] state = "EXTENDING" -> CaseEXTENDING(angle, now)
    [] state = "FLEXING" -> CaseFLEXING(angle, now)

\* ------------------------------------------------------------ updateLogic
Undetected(h, k, a) == h = Null \/ k = Null \/ a = Null

\* mutant: the isNaN test is missing
InvalidNullOnly(angle) == angle = Null

Invalid(angle) == angle = Null \/ IsNaN(angle)

Observed(pose, now) ==
  [n \in Names |->
     LET direct == getKeypoint(pose, n, MIN_SCORE) IN
     IF direct # Null
     THEN Some([at |-> now, x |-> Val(direct).x, y |-> Val(direct).y])
     ELSE lastSeen[n]]

\* mutant: a frame without a sample also drops the smoothed value
NoSampleReset(text) ==
  /\ angleDisplay' = Display(text, Null)
  /\ smoothedAngle' = Null
  /\ UNCHANGED <<machine, repInfo, angleFeedback, speedFeedback, samples>>

\* the early returns: only the angle display changes
NoSample(text) ==
  /\ angleDisplay' = Display(text, Null)
  /\ UNCHANGED <<smoothedAngle, machine, repInfo, angleFeedback, speedFeedback,
                 samples>>

\* history of the valid samples
Sampled(angle) ==
  /\ sampleCount' = sampleCount + 1
  /\ rawMin' = IF rawMin = Null \/ angle < NumOf(rawMin) THEN Some(angle) ELSE rawMin
  /\ rawMax' = IF rawMax = Null \/ angle > NumOf(rawMax) THEN Some(angle) ELSE rawMax

\* a valid sample: smoothing, then the state machine on the smoothed value
ProcessSample(angle, now) ==
  \E sm \in {Smooth(smoothedAngle, angle)} :
     /\ smoothedAngle' = Some(sm)
     /\ Sampled(angle)
     /\ RepStateMachine(sm, now)

\* The locals hip, knee, ankle, angle are bound once each, in the order the
\* code computes them.
updateLogic(pose, now) ==
  \E r1 \in {getStableKeypoint(lastGood, pose, "right_hip", now, MIN_SCORE)} :
  \E r2 \in {getStableKeypoint(r1.lastGood, pose, "right_knee", now, MIN_SCORE)} :
  \E r3 \in {getStableKeypoint(r2.lastGood, pose, "right_ankle", now, MIN_SCORE)} :
     /\ nowSec' = now
     /\ hip' = r1.kp
     /\ knee' = r2.kp
     /\ ankle' = r3.kp
     /\ lastGood' = r3.lastGood
     /\ lastSeen' = Observed(pose, now)
     /\ IF Undetected(r1.kp, r2.kp, r3.kp)
        THEN /\ rawAngle' = Null
             /\ NoSample("Angle: -- (right leg not clearly detected)")
        ELSE \E angle \in {computeKneeAngle(Val(r1.kp), Val(r2.kp), Val(r3.kp))} :
                /\ rawAngle' = angle
                /\ IF Invalid(angle)
                   THEN NoSample("Angle: -- (invalid)")
                   ELSE ProcessSample(Val(angle), now)

\* ------------------------------------------------------------ render loop
Init ==
  /\ clock = 0
  /\ frames = 0
  /\ estimating = 0
  /\ rafPending = 0
  /\ currentPose = Null
  /\ smoothedAngle = Null
  /\ lastGood = [right_hip |-> Null, right_knee |-> Null, right_ankle |-> Null,
                 timestamp |-> 0]
  /\ state = "BENT"
  /\ repCount = 0
  /\ repStartTime = Null
  /\ extendStartTime = Null
  /\ flexStartTime = Null
  /\ maxAngleThisRep = Null
  /\ angleDisplay = Display("", Null)
  /\ repInfo = Null
  /\ angleFeedback =
       Feedback("Model ready. Sit sideways and start extending your right leg.",
                Null, "ok")
  /\ speedFeedback = Feedback("", Null, "")
  /\ nowSec = 0
  /\ hip = Null
  /\ knee = Null
  /\ ankle = Null
  /\ rawAngle = Null
  /\ lastSeen = [n \in Names |-> Null]
  /\ sampleCount = 0
  /\ rawMin = Null
  /\ rawMax = Null

\* main's call renderLoop(): runs to the await of estimatePoses
Main ==
  /\ frames = 0
  /\ frames' = 1
  /\ estimating' = estimating + 1
  /\ UNCHANGED <<clock, rafPending, currentPose, smoothedAngle, lastGood,
                 machine, display, locals, lastSeen, samples>>

\* mutant: renderLoop requests the next frame before awaiting estimatePoses
FrameCallbackEager ==
  /\ rafPending > 0
  /\ frames < MaxFrames
  /\ rafPending' = rafPending - 1 + 1
  /\ estimating' = estimating + 1
  /\ frames' = frames + 1
  /\ UNCHANGED <<clock, currentPose, smoothedAngle, lastGood, machine, display,
                 locals, lastSeen, samples>>

\* the browser runs a scheduled animation-frame callback: renderLoop runs to
\* the await of estimatePoses
FrameCallback ==
  /\ rafPending > 0
  /\ frames < MaxFrames
  /\ rafPending' = rafPending - 1
  /\ estimating' = estimating + 1
  /\ frames' = frames + 1
  /\ UNCHANGED <<clock, currentPose, smoothedAngle, lastGood, machine, display,
                 locals, lastSeen, samples>>

\* estimatePoses resolves with poses[0] = pose after gap tenths of a second;
\* renderLoop resumes and runs to its end in one step (no other callback runs
\* inside a synchronous stretch of JavaScript).  drawImage and drawSkeleton
\* write to the canvas only.
Resume(gap, pose) ==
  /\ estimating > 0
  /\ clock' = clock + gap
  /\ currentPose' = pose
  /\ updateLogic(pose, clock + gap)
  /\ estimating' = estimating - 1
  /\ rafPending' = rafPending + 1
  /\ UNCHANGED frames

\* The scenario of ten frames: every frame has the complete, confident pose
\* at the given knee angle (degrees).
Script == <<90, 90, 95, 120, 150, 168, 165, 140, 100, 90>>

ScriptPose(i) == Pose(<<NoseKp, HipKp, KneeKp, AnkleKp(Script[i])>>)

ScenarioFrameCallback ==
  /\ rafPending > 0
  /\ frames < Len(Script)
  /\ rafPending' = rafPending - 1
  /\ estimating' = estimating + 1
  /\ frames' = frames + 1
  /\ UNCHANGED <<clock, currentPose, smoothedAngle, lastGood, machine, display,
                 locals, lastSeen, samples>>

ScenarioResume == \E gap \in Gaps : Resume(gap, ScriptPose(frames))

ScenarioNext ==
  \/ Main
  \/ ScenarioFrameCallback
  \/ ScenarioResume

ScenarioSpec == Init /\ [][ScenarioNext]_vars

\* ------------------------------------------------------------ angle samples
\* The part of updateLogic behind the two early returns, on angle samples
\* finer than a degree: the pose that has the angle is left out.
MaxSamples == 4
SampleGaps == {3, 30}
Samples == {0, Deg(61), Deg(110), Deg(110) + 5, Deg(180)}

SampleFrameCallback ==
  /\ rafPending > 0
  /\ frames < MaxSamples
  /\ rafPending' = rafPending - 1
  /\ estimating' = estimating + 1
  /\ frames' = frames + 1
  /\ UNCHANGED <<clock, currentPose, smoothedAngle, lastGood, machine, display,
                 locals, lastSeen, samples>>

SampleResume(gap, angle) ==
  /\ estimating > 0
  /\ clock' = clock + gap
  /\ nowSec' = clock + gap
  /\ rawAngle' = Some(angle)
  /\ ProcessSample(angle, clock + gap)
  /\ estimating' = estimating - 1
  /\ rafPending' = rafPending + 1
  /\ UNCHANGED <<frames, currentPose, lastGood, hip, knee, ankle, lastSeen>>

SampleNext ==
  \/ Main
  \/ SampleFrameCallback
  \/ \E gap \in SampleGaps, angle \in Samples : SampleResume(gap, angle)

SampleSpec == Init /\ [][SampleNext]_vars

\* ------------------------------------------------------------ knee angle
\* computeKneeAngle on its own, on three points of a grid
GridCoords == {0, 30, 40}
GridKps(name) ==
  { Kp(name, Some(x), Some(y), MIN_SCORE) : x \in GridCoords, y \in GridCoords }

ComputeAngle(h, k, a) ==
  /\ hip' = Some(h)
  /\ knee' = Some(k)
  /\ ankle' = Some(a)
  /\ rawAngle' = computeKneeAngle(h, k, a)
  /\ UNCHANGED <<sched, currentPose, smoothedAngle, lastGood, machine, display,
                 nowSec, lastSeen, samples>>

GeomNext ==
  \E h \in GridKps("right_hip"), k \in GridKps("right_knee"),
     a \in GridKps("right_ankle") : ComputeAngle(h, k, a)

GeomSpec == Init /\ [][GeomNext]_vars

Next ==
  \/ Main
  \/ FrameCallback
  \/ \E gap \in Gaps, pose \in Poses : Resume(gap, pose)

Spec == Init /\ [][Next]_vars

\* ------------------------------------------------------------ properties
\* a step in which a renderLoop pass resumes and runs updateLogic
PassStep == estimating' = estimating - 1

\* ... and in which updateLogic got a valid angle sample
ValidStep == PassStep /\ Len(rawAngle') = 1

\* the last pass is over (no pass is suspended) and there was one
PassOver == frames > 0 /\ estimating = 0

\* the landmark the last updateLogic call resolved for a name
Resolved(n) ==
  CASE n = "right_hip" -> hip
    [] n = "right_knee" -> knee
    [] n = "right_ankle" -> ankle

Pos(kp) == <<kp.x, kp.y>>

\* C1: repCount never decreases, changes by at most 1 per step, and goes up by
\* one exactly on the steps that take FLEXING -> BENT; the state moves only
\* along BENT -> EXTENDING -> FLEXING -> BENT, so repCount, which starts at 0,
\* is the number of completed cycles.
C1_RepCountCountsCycles ==
  /\ repCount = 0
  /\ [][/\ repCount' >= repCount
        /\ repCount' <= repCount + 1
        /\ (repCount' = repCount + 1) <=> (state = "FLEXING" /\ state' = "BENT")
        /\ state' # state => <<state, state'>> \in
                               { <<"BENT", "EXTENDING">>, <<"EXTENDING", "FLEXING">>,
                                 <<"FLEXING", "BENT">> }
       ]_vars

C1_Witness == repCount = 1 /\ state = "BENT" /\ PassOver

\* number of samples of the scenario processed so far
Processed == frames - estimating

\* C2 (as claimed): in the scenario the machine goes BENT -> EXTENDING at the
\* sample 120 (the 4th), records the peak 168 (the 6th), goes to FLEXING at
\* the sample 165 (the 7th) with tier good, and completes the rep at the
\* sample 100 (the 9th), repCount becoming 1 with tier good.
C2_ScenarioAsClaimed ==
  /\ Processed <= 3 => state = "BENT"
  /\ Processed \in 4..6 => state = "EXTENDING"
  /\ Processed = 6 => maxAngleThisRep = Some(168 * Scale)
  /\ Processed \in 7..8 => (state = "FLEXING" /\ angleFeedback.level = "ok")
  /\ Processed < 9 => repCount = 0
  /\ Processed >= 9 => (state = "BENT" /\ repCount = 1
                         /\ angleFeedback.level = "ok")

\* C2 (amended): the machine steps on the smoothed angles 90, 90, 91.5,
\* 100.05, 115.035, 130.9245, 141.14715, 140.803005, 128.562104, ...: it goes
\* BENT -> EXTENDING at the sample 150 (the 5th), the recorded peak is
\* 141.14715 (from the 7th sample on), it goes to FLEXING at the sample 100
\* (the 9th) with tier bad, and no rep completes: repCount stays 0.
C2_ScenarioAsRun ==
  /\ Processed <= 4 => state = "BENT"
  /\ Processed = 4 => smoothedAngle = Some(100050000)
  /\ Processed \in 5..8 => state = "EXTENDING"
  /\ Processed = 5 => maxAngleThisRep = Some(115035000)
  /\ Processed \in 7..10 => maxAngleThisRep = Some(141147150)
  /\ Processed = 8 => smoothedAngle = Some(140803005)
  /\ Processed >= 9 => (state = "FLEXING" /\ angleFeedback.level = "bad")
  /\ repCount = 0

C2_Witness ==
  /\ Processed = Len(Script)
  /\ state = "FLEXING"
  /\ Len(rawAngle) = 1
  /\ Val(rawAngle) = 90 * Scale
  /\ Val(smoothedAngle) > 110 * Scale

\* C3 (as claimed): a landmark missing from the current pose whose own last
\* confident observation is more than MAX_GAP_SEC old resolves to absent.
C3_NoStaleLandmark ==
  \A n \in Names :
    (/\ frames > 0
     /\ getKeypoint(currentPose, n, MIN_SCORE) = Null
     /\ lastSeen[n] # Null
     /\ nowSec - Val(lastSeen[n]).at > MAX_GAP_SEC)
    => Resolved(n) = Null

\* C4: a landmark missing from the current pose that was confidently observed
\* at most MAX_GAP_SEC ago resolves to the position of that observation.
C4_RecentLandmarkReused ==
  \A n \in Names :
    (/\ frames > 0
     /\ getKeypoint(currentPose, n, MIN_SCORE) = Null
     /\ lastSeen[n] # Null
     /\ nowSec - Val(lastSeen[n]).at <= MAX_GAP_SEC)
    => /\ Resolved(n) # Null
       /\ Pos(Val(Resolved(n))) = <<Val(lastSeen[n]).x, Val(lastSeen[n]).y>>

C4_Witness ==
  /\ PassOver
  /\ getKeypoint(currentPose, "right_ankle", MIN_SCORE) = Null
  /\ lastSeen["right_ankle"] # Null
  /\ nowSec - Val(lastSeen["right_ankle"]).at = MAX_GAP_SEC
  /\ ankle # Null
  /\ lastSeen["right_hip"] # Null
  /\ Val(lastSeen["right_hip"]).at = nowSec

\* C5: a pass without a valid sample ends normally (the next frame is
\* requested) and leaves the machine's fields and smoothedAngle unchanged.
C5_AbsentSampleNoChange ==
  [][(PassStep /\ Len(rawAngle') # 1)
     => /\ rafPending' = rafPending + 1
        /\ UNCHANGED <<state, repCount, repStartTime, extendStartTime,
                       flexStartTime, maxAngleThisRep, smoothedAngle>>
    ]_vars

C5_Witness ==
  /\ PassOver
  /\ IsNaN(rawAngle)
  /\ state = "EXTENDING"
  /\ smoothedAngle # Null

\* C6: stepping on exactly BENT_THRESHOLD keeps BENT unchanged and completes
\* the rep in FLEXING.
C6_BentThresholdBoundary ==
  [][(ValidStep /\ smoothedAngle' = Some(110 * Scale))
     => /\ state = "BENT" => UNCHANGED <<machine, display>>
        /\ state = "FLEXING" => (repCount' = repCount + 1 /\ state' = "BENT")
    ]_vars

C6_Witness ==
  /\ PassOver
  /\ Len(rawAngle) = 1
  /\ smoothedAngle = Some(110 * Scale)
  /\ state = "BENT"
  /\ repCount = 1

\* C7: at a rep completion at time nowSec', the speed feedback is "too fast"
\* (bad) iff the total time is under 5 s or a phase is under 2 s, with the
\* times taken from the rep's timestamps; otherwise "good tempo" (ok).
C7_TempoClassification ==
  [][(state = "FLEXING" /\ state' = "BENT")
     => LET totalTime == nowSec' - Val(repStartTime)
            extendTime == Val(flexStartTime) - Val(extendStartTime)
            flexTime == nowSec' - Val(flexStartTime)
        IN IF totalTime < 50 \/ extendTime < 20 \/ flexTime < 20
           THEN /\ speedFeedback'.level = "bad"
                /\ speedFeedback'.text = "Too fast. Slow down your movement."
           ELSE /\ speedFeedback'.level = "ok"
                /\ speedFeedback'.text = "Good tempo and control."
    ]_vars

C7_Witness ==
  /\ PassOver
  /\ state = "BENT"
  /\ repCount = 1
  /\ speedFeedback.text = "Good tempo and control."

\* the tier the specification gives a maximum angle
TierOf(max) ==
  IF max >= 160 * Scale THEN "ok"
  ELSE IF max >= 145 * Scale THEN "warn"
  ELSE "bad"

\* C8: the angle feedback's tier at EXTENDING -> FLEXING and at the rep's
\* completion is TierOf(maxAngleThisRep).
C8_ExtensionTier ==
  [][/\ (state = "EXTENDING" /\ state' = "FLEXING")
          => angleFeedback'.level = TierOf(Val(maxAngleThisRep'))
     /\ (state = "FLEXING" /\ state' = "BENT")
          => angleFeedback'.level = TierOf(Val(maxAngleThisRep))
    ]_vars

C8_Witness ==
  /\ PassOver
  /\ state = "BENT"
  /\ repCount = 1
  /\ angleFeedback.level = "warn"
  /\ angleFeedback.rep = Some(1)

\* C9: at most one pass is in progress, a frame is requested only when no pass
\* is in progress, and nowSec never decreases from pass to pass.
C9_SequentialPasses ==
  [][/\ estimating' + rafPending' <= 1
     /\ nowSec' >= nowSec
    ]_vars

C9_Witness == frames = 2 /\ estimating = 1 /\ rafPending = 0 /\ nowSec > 0

\* C10: once smoothedAngle has a value it keeps one.
C10_SmoothedStays ==
  [][smoothedAngle # Null => smoothedAngle' # Null]_vars

C10_Witness ==
  /\ PassOver
  /\ smoothedAngle # Null
  /\ Len(rawAngle) # 1
  /\ angleDisplay.text = "Angle: -- (right leg not clearly detected)"

\* C11 (as claimed): on a valid sample a, the new smoothed value is exactly a if
\* there was none, and 0.3 a + 0.7 (previous smoothed value) (to the grid)
\* otherwise; the state machine decides on the smoothed value: BENT is left
\* exactly when the smoothed value is above 110, and maxAngleThisRep starts as
\* the smoothed value.
C11_SmoothingRule ==
  [][ValidStep =>
       LET a == Val(rawAngle')
           s2 == Val(smoothedAngle')
       IN /\ smoothedAngle = Null => s2 = a
          /\ smoothedAngle # Null =>
                Abs(10 * s2 - (3 * a + 7 * Val(smoothedAngle))) <= 10
          /\ state = "BENT" =>
                /\ (state' = "EXTENDING") <=> (s2 > Deg(BENT_THRESHOLD))
                /\ state' = "EXTENDING" => maxAngleThisRep' = smoothedAngle'
    ]_vars

C13_KneeAngleDefined ==
  hip # Null =>
    /\ (rawAngle = Null) <=>
          (Pos(Val(hip)) = Pos(Val(knee)) \/ Pos(Val(ankle)) = Pos(Val(knee)))
    /\ rawAngle # Null =>
          /\ Len(rawAngle) = 1
          /\ rawAngle = computeKneeAngle(Val(ankle), Val(knee), Val(hip))

C13_Witness ==
  /\ frames = 0
  /\ hip # Null
  /\ Pos(Val(hip)) # Pos(Val(knee))
  /\ Pos(Val(ankle)) = Pos(Val(knee))
  /\ rawAngle = Null


\* C14: the per-rep data matches the state: all four are null in BENT; in
\* EXTENDING repStartTime, extendStartTime (the time of the pass that left BENT,
\* kept since) and maxAngleThisRep (the smoothed angle of that pass, never
\* lowered since) are set and flexStartTime is null; in FLEXING all four are
\* set, flexStartTime being the time of the pass EXTENDING -> FLEXING.
C14_RepDataMatchesState ==
  /\ [](/\ state = "BENT" =>
             /\ repStartTime = Null
             /\ extendStartTime = Null
             /\ flexStartTime = Null
             /\ maxAngleThisRep = Null
        /\ state # "BENT" =>
             /\ repStartTime # Null
             /\ extendStartTime # Null
             /\ maxAngleThisRep # Null
        /\ state = "EXTENDING" => flexStartTime = Null
        /\ state = "FLEXING" => flexStartTime # Null)
  /\ [][/\ (state = "BENT" /\ state' = "EXTENDING") =>
             /\ repStartTime' = Some(nowSec')
             /\ extendStartTime' = Some(nowSec')
             /\ maxAngleThisRep' = smoothedAngle'
        /\ (state = "EXTENDING" /\ state' # "BENT") =>
             /\ UNCHANGED <<repStartTime, extendStartTime>>
             /\ Val(maxAngleThisRep') >= Val(maxAngleThisRep)
        /\ (state = "EXTENDING" /\ state' = "FLEXING") =>
             flexStartTime' = Some(nowSec')
        /\ (state = "FLEXING" /\ state' = "FLEXING") =>
             UNCHANGED <<repStartTime, extendStartTime, flexStartTime>>
       ]_vars

C14_Witness ==
  /\ PassOver
  /\ state = "FLEXING"
  /\ flexStartTime = Some(nowSec)
  /\ Val(extendStartTime) < nowSec

\* C15: on a valid sample in EXTENDING, maxAngleThisRep becomes the greater of
\* itself and the smoothed angle (it starts as the smoothed angle that left
\* BENT, so it is the maximum since); the pass moves to FLEXING iff the
\* smoothed angle is below maxAngleThisRep - 1.0; a smoothed angle in
\* [maxAngleThisRep - 1.0, maxAngleThisRep] leaves state and maximum as they
\* are.
C15_PeakHysteresis ==
  [][/\ (ValidStep /\ state = "BENT" /\ state' = "EXTENDING") =>
          maxAngleThisRep' = smoothedAngle'
     /\ (ValidStep /\ state = "EXTENDING") =>
          LET s2 == Val(smoothedAngle')
              max == Val(maxAngleThisRep)
          IN /\ state' \in {"EXTENDING", "FLEXING"}
             /\ (state' = "FLEXING") <=> (s2 < max - Deg(1))
             /\ maxAngleThisRep' = Some(IF s2 > max THEN s2 ELSE max)
             /\ (max - Deg(1) <= s2 /\ s2 <= max) =>
                   /\ state' = "EXTENDING"
                   /\ UNCHANGED maxAngleThisRep
    ]_vars

C15_Witness ==
  /\ PassOver
  /\ Len(rawAngle) = 1
  /\ state = "EXTENDING"
  /\ Val(smoothedAngle) < Val(maxAngleThisRep)
  /\ Val(smoothedAngle) >= Val(maxAngleThisRep) - Deg(1)

\* the order in which updateLogic resolves the landmarks
ResolveOrder == [right_hip |-> 1, right_knee |-> 2, right_ankle |-> 3]

C17_OneArrowPerPass ==
  /\ [](sampleCount >= 3 * repCount)
  /\ [][/\ state' # state =>
             /\ ValidStep
             /\ <<state, state'>> \in
                  { <<"BENT", "EXTENDING">>, <<"EXTENDING", "FLEXING">>,
                    <<"FLEXING", "BENT">> }
        /\ state = "EXTENDING" => /\ state' # "BENT"
                                  /\ repCount' = repCount
        /\ repCount' # repCount =>
             /\ ValidStep
             /\ state = "FLEXING"
             /\ Val(smoothedAngle') <= Deg(BENT_THRESHOLD)
       ]_vars

C17_Witness == PassOver /\ repCount = 1 /\ sampleCount = 3

\* C18: maxAngleThisRep is above 110 whenever the state is not BENT and does
\* not change while the state stays FLEXING; the tier of the angle feedback at
\* the rep's completion is the tier shown since the rep's EXTENDING ->
\* FLEXING pass.
C18_TierKept ==
  /\ [](state # "BENT" => Val(maxAngleThisRep) > Deg(BENT_THRESHOLD))
  /\ [][/\ (state = "FLEXING" /\ state' = "FLEXING") =>
             UNCHANGED <<maxAngleThisRep, angleFeedback>>
        /\ (state = "EXTENDING" /\ state' = "FLEXING") =>
             /\ UNCHANGED maxAngleThisRep
             /\ angleFeedback'.level = TierOf(Val(maxAngleThisRep))
        /\ (state = "FLEXING" /\ state' = "BENT") =>
             angleFeedback'.level = angleFeedback.level
       ]_vars

C18_Witness ==
  /\ PassOver
  /\ state = "BENT"
  /\ repCount = 1
  /\ angleFeedback.level = "ok"
  /\ angleFeedback.rep = Some(1)

====
